---------------------------- MODULE Spec2Model ----------------------------
(* A model of generate_lab_catalog.py: the content parser (parse_frontmatter,
   extract_technologies), the provenance lookup (get_git_info) and the
   catalog assembler (process_lab_files, generate_csv, main).

   Text is modelled as TLA+ strings, read character by character with
   SubSeq; the regular expressions of the source are modelled by what
   Python's re module does with them (leftmost match, greedy and lazy
   quantifiers in backtracking order). *)
EXTENDS Integers, Sequences, FiniteSets, TLC

VARIABLES
    pc,        \* position of the running program
    arg,       \* the argument of the function under call (function harnesses)
    ret,       \* what the function under call returned
    fs,        \* the scanned tree: path -> [readable, content]
    out_prev,  \* whether an output file of an earlier run exists
    md_files,  \* process_lab_files: the enumerated files, sorted
    idx,       \* process_lab_files: index of the next file of the loop
    labs,      \* process_lab_files: the records assembled so far
    errors,    \* files for which "Error processing" was printed
    outfile,   \* the output file: [state, rows]
    written    \* generate_csv: number of records handed to the writer

vars == <<pc, arg, ret, fs, out_prev, md_files, idx, labs, errors, outfile, written>>

-----------------------------------------------------------------------------
(* Strings *)

At(s, i) == SubSeq(s, i, i)

Min(S) == CHOOSE x \in S : \A y \in S : x <= y

Max(S) == CHOOSE x \in S : \A y \in S : y <= x

\* Python's whitespace (str.strip, str.split, \s), within the model's alphabet
IsSpace(c) == c \in {" ", "\n", "\t"}

IsDigit(c) == c \in {"0", "1", "2", "3", "4", "5", "6", "7", "8", "9"}

\* the characters of the model in code point order
CodeOrder == "\t\n !\"#'()+,-./0123456789:ABCDEFGHIJKLMNOPQRSTUVWXYZ[]_abcdefghijklmnopqrstuvwxyz|"

OrdOf == [c \in {At(CodeOrder, i) : i \in 1..Len(CodeOrder)} |->
             CHOOSE i \in 1..Len(CodeOrder) : At(CodeOrder, i) = c]

Ord(c) == OrdOf[c]

\* a < b for Python strings: by code point, a proper prefix first
StrLess(a, b) ==
    LET d == CHOOSE i \in 1..(Len(a) + 1) :
                 /\ i > Len(a) \/ i > Len(b) \/ At(a, i) # At(b, i)
                 /\ \A k \in 1..(i - 1) : k <= Len(b) /\ At(a, k) = At(b, k)
    IN IF d > Len(a) THEN Len(b) > Len(a)
       ELSE IF d > Len(b) THEN FALSE
       ELSE Ord(At(a, d)) < Ord(At(b, d))

Uppers == "ABCDEFGHIJKLMNOPQRSTUVWXYZ"

Lowers == "abcdefghijklmnopqrstuvwxyz"

LowerOf == [c \in {At(Uppers, i) : i \in 1..26} |-> At(Lowers, CHOOSE i \in 1..26 : At(Uppers, i) = c)]

\* str.lower on one character
LowerChar(c) == IF c \in DOMAIN LowerOf THEN LowerOf[c] ELSE c

\* str.lower
RECURSIVE Lower(_)
Lower(s) == IF s = "" THEN "" ELSE LowerChar(At(s, 1)) \o Lower(SubSeq(s, 2, Len(s)))

WordChars == {At(Uppers, i) : i \in 1..26} \cup {At(Lowers, i) : i \in 1..26}
             \cup {"0", "1", "2", "3", "4", "5", "6", "7", "8", "9", "_"}

\* \w of the re module
IsWordChar(c) == c \in WordChars

\* n copies of c
RECURSIVE Rep(_, _)
Rep(c, n) ==
    IF n = 0 THEN ""
    ELSE IF n % 2 = 0 THEN LET h == Rep(c, n \div 2) IN h \o h
    ELSE c \o Rep(c, n - 1)

\* the position after the longest run of whitespace that starts at i
WsRunEnd(s, i) ==
    CHOOSE j \in i..(Len(s) + 1) :
        /\ j = Len(s) + 1 \/ ~IsSpace(At(s, j))
        /\ \A k \in i..(j - 1) : IsSpace(At(s, k))

\* the position of the first sep at or after i, Len(s) + 1 when there is none
Find(s, sep, i) ==
    CHOOSE j \in i..(Len(s) + 1) :
        /\ j = Len(s) + 1 \/ At(s, j) = sep
        /\ \A k \in i..(j - 1) : At(s, k) # sep

StartsWith(s, p) == Len(s) >= Len(p) /\ SubSeq(s, 1, Len(p)) = p

\* p occurs in s at position i
OccursAt(s, p, i) == i + Len(p) - 1 <= Len(s) /\ SubSeq(s, i, i + Len(p) - 1) = p

\* str.split(sep) for a one-character sep
RECURSIVE Split(_, _)
Split(s, sep) ==
    LET e == Find(s, sep, 1)
    IN IF e > Len(s) THEN <<s>>
       ELSE <<SubSeq(s, 1, e - 1)>> \o Split(SubSeq(s, e + 1, Len(s)), sep)

\* sep.join(parts)
RECURSIVE Join(_, _)
Join(parts, sep) ==
    IF parts = <<>> THEN ""
    ELSE IF Len(parts) = 1 THEN parts[1]
    ELSE parts[1] \o sep \o Join(Tail(parts), sep)

\* str.strip()
Strip(s) ==
    LET a == WsRunEnd(s, 1)
    IN IF a > Len(s) THEN ""
       ELSE SubSeq(s, a, CHOOSE b \in a..Len(s) :
                             /\ ~IsSpace(At(s, b))
                             /\ \A k \in (b + 1)..Len(s) : IsSpace(At(s, k)))

\* s[:n]
Take(s, n) == IF Len(s) <= n THEN s ELSE SubSeq(s, 1, n)

SENTINEL == "N/A"

-----------------------------------------------------------------------------
(* parse_frontmatter *)

\* re.match(r'^---\s*\n(.*?)\n---\s*\n', content, re.DOTALL): the opening \s*
\* is greedy (the longest run is tried first), the group is lazy (the nearest
\* closing delimiter after the opening is taken)
FrontmatterMatch(content) ==
    LET n == Len(content)
        \* positions of the \n that can end the opening delimiter
        opens == IF OccursAt(content, "---", 1)
                 THEN {j \in 4..(WsRunEnd(content, 4) - 1) : At(content, j) = "\n"}
                 ELSE {}
        \* e is the \n before a closing "---", itself followed by \s*\n
        Closes(g) == {e \in g..n :
                        /\ At(content, e) = "\n"
                        /\ OccursAt(content, "---", e + 1)
                        /\ \E m \in (e + 4)..(WsRunEnd(content, e + 4) - 1) :
                              At(content, m) = "\n"}
        good == {j \in opens : Closes(j + 1) # {}}
    IN IF good = {} THEN [found |-> FALSE, group |-> ""]
       ELSE LET j == Max(good)
                e == Min(Closes(j + 1))
            IN [found |-> TRUE, group |-> SubSeq(content, j + 1, e - 1)]

IsQuote(c) == c \in {"'", "\""}

\* re.search(key + r"\s*['\"](.+?)['\"]", frontmatter): the leftmost
\* occurrence of key followed by whitespace, a quote, at least one character
\* other than \n, and the nearest later quote on the same line
KeySearch(frontmatter, key) ==
    LET n == Len(frontmatter)
        Quote(i) == WsRunEnd(frontmatter, i + Len(key))
        Ends(i) == {p \in (Quote(i) + 2)..n :
                       /\ IsQuote(At(frontmatter, p))
                       /\ \A k \in (Quote(i) + 1)..(p - 1) : At(frontmatter, k) # "\n"}
        starts == {i \in 1..n :
                       /\ OccursAt(frontmatter, key, i)
                       /\ Quote(i) <= n
                       /\ IsQuote(At(frontmatter, Quote(i)))
                       /\ Ends(i) # {}}
    IN IF starts = {} THEN [found |-> FALSE, group |-> ""]
       ELSE LET i == Min(starts)
            IN [found |-> TRUE,
                group |-> SubSeq(frontmatter, Quote(i) + 1, Min(Ends(i)) - 1)]

\* re.search(r'^#\s+(.+)$', content, re.MULTILINE): the leftmost "#" at the
\* start of a line, followed by whitespace (greedy, at least one) and the rest
\* of a line that is not empty
H1Search(content) ==
    LET n == Len(content)
        \* the lengths \s+ can take after the "#" at i
        Runs(i) == {k \in 1..(WsRunEnd(content, i + 1) - (i + 1)) :
                       /\ i + 1 + k <= n
                       /\ At(content, i + 1 + k) # "\n"}
        starts == {i \in 1..n :
                       /\ At(content, i) = "#"
                       /\ (i = 1 \/ At(content, i - 1) = "\n")
                       /\ Runs(i) # {}}
    IN IF starts = {} THEN [found |-> FALSE, group |-> ""]
       ELSE LET i == Min(starts)
                t == i + 1 + Max(Runs(i))
            IN [found |-> TRUE,
                group |-> SubSeq(content, t, Find(content, "\n", t) - 1)]

\* the length at which the description stops growing (line 53)
DESC_ENOUGH == 100

\* the length the description is cut to (line 55)
DESC_LIMIT == 200

\* EnoughContext, were a length of exactly DESC_ENOUGH enough
EnoughContext_AtLeast(desc_lines) == Len(Join(desc_lines, " ")) >= DESC_ENOUGH

\* line 53: whether enough lines were collected
EnoughContext(desc_lines) == Len(Join(desc_lines, " ")) > DESC_ENOUGH

\* lines 46-54: the loop over the lines, from line k on
RECURSIVE DescLoop(_, _, _, _)
DescLoop(lines, k, desc_lines, in_content) ==
    IF k > Len(lines) THEN desc_lines
    ELSE LET line == lines[k]
         IN IF StartsWith(line, "# ")
            THEN DescLoop(lines, k + 1, desc_lines, TRUE)
            ELSE IF /\ in_content
                    /\ Strip(line) # ""
                    /\ ~StartsWith(line, "#")
                    /\ ~StartsWith(line, "!")
            THEN LET more == Append(desc_lines, Strip(line))
                 IN IF EnoughContext(more) THEN more
                    ELSE DescLoop(lines, k + 1, more, in_content)
            ELSE DescLoop(lines, k + 1, desc_lines, in_content)

\* lines 37-58: the fallback to the first H1 heading
HeadingFallback(content) ==
    LET h1_match == H1Search(content)
    IN IF h1_match.found
       THEN <<Strip(h1_match.group),
              Take(Join(DescLoop(Split(content, "\n"), 1, <<>>, FALSE), " "), DESC_LIMIT)>>
       ELSE <<"", "">>

\* lines 22-58: <<title, description>>
parse_frontmatter(content) ==
    LET match == FrontmatterMatch(content)
    IN IF match.found
       THEN LET title_match == KeySearch(match.group, "title:")
                desc_match == KeySearch(match.group, "description:")
            IN <<IF title_match.found THEN title_match.group ELSE "",
                 IF desc_match.found THEN desc_match.group ELSE "">>
       ELSE HeadingFallback(content)

\* line 177 of process_lab_files: the description field of the record
full_description(title, description) ==
    IF title # "" /\ description # "" THEN title \o ". " \o description
    ELSE IF description # "" THEN description
    ELSE IF title # "" THEN title
    ELSE SENTINEL

-----------------------------------------------------------------------------
(* The documents parse_frontmatter is called on *)

\* the longest block of lines after an opening "---"
MaxFrontLines == 4

\* the longest document without an opening "---"
MaxBodyLines == 4

SeqsUpTo(S, n) == UNION {[1..k -> S] : k \in 0..n}

\* lines of a document that opens with "---"
FrontLines ==
    {"---", "", "title: 'Lab'", "title: \"It's\"", "description: \"Intro\"",
     "subtitle: 'Sub'", "# Head"}

Text49 == Rep("a", 49)

Text50 == " " \o Rep("b", 50) \o " "

Text210 == Rep("c", 210)

\* lines of a document without metadata block
BodyLines == {"# Head", "## Sub", "!img", "", Text49, Text50, Text210}

\* a document is its lines and whether the last line ends with a newline
ParseArgs ==
    {[lines |-> <<"---">> \o ls, nl |-> b] : ls \in SeqsUpTo(FrontLines, MaxFrontLines), b \in BOOLEAN}
    \cup {[lines |-> ls, nl |-> FALSE] : ls \in SeqsUpTo(BodyLines, MaxBodyLines)}

Content(doc) == Join(doc.lines, "\n") \o (IF doc.nl THEN "\n" ELSE "")

None == "None"

\* the state of the program's variables while it is not running
Idle ==
    /\ fs = <<>>
    /\ out_prev = FALSE
    /\ md_files = <<>>
    /\ idx = 0
    /\ labs = <<>>
    /\ errors = <<>>
    /\ outfile = None
    /\ written = 0

ProgramVars == <<fs, out_prev, md_files, idx, labs, errors, outfile, written>>

InitParse ==
    /\ pc = "call"
    /\ arg \in ParseArgs
    /\ ret = None
    /\ Idle

\* lines 169 and 177: the document is parsed and its description field built
ParseFrontmatter ==
    /\ pc = "call"
    /\ LET r == parse_frontmatter(Content(arg))
       IN ret' = [title |-> r[1], description |-> r[2],
                  full_description |-> full_description(r[1], r[2])]
    /\ pc' = "return"
    /\ UNCHANGED <<arg, ProgramVars>>

NextParse == ParseFrontmatter

SpecParse == InitParse /\ [][NextParse]_vars

-----------------------------------------------------------------------------
(* extract_technologies *)

\* the elements of a pattern: a literal (matched ignoring case), \b, \s+ and
\* a group of alternatives tried in order ("" last makes the group optional)
Lit(s) == [t |-> "lit", s |-> s, alts |-> <<>>]

B == [t |-> "b", s |-> "", alts |-> <<>>]

WS == [t |-> "ws", s |-> "", alts |-> <<>>]

Alt(alts) == [t |-> "alt", s |-> "", alts |-> alts]

\* lines 66-86
tech_patterns ==
    << <<B, Lit("Azure"), WS, Lit("OpenAI"), B>>,
       <<B, Lit("GPT-4"), Alt(<<"o", "">>), B>>,
       <<B, Lit("Foundry"), B>>,
       <<B, Lit("prompt"), WS, Lit("flow"), B>>,
       <<B, Lit("RAG"), B>>,
       <<B, Lit("Retrieval"), WS, Lit("Augmented"), WS, Lit("Generation"), B>>,
       <<B, Lit("Azure"), WS, Lit("AI"), WS, Alt(<<"Services", "Studio", "Foundry">>), B>>,
       <<B, Lit("AI"), WS, Lit("hub"), B>>,
       <<B, Lit("Python"), WS, Lit("SDK"), B>>,
       <<B, Lit("TypeScript"), B>>,
       <<B, Lit(".NET"), B>>,
       <<B, Lit("fine-tun"), Alt(<<"e", "ing">>), B>>,
       <<B, Lit("content"), WS, Lit("filter"), Alt(<<"s", "ing", "">>), B>>,
       <<B, Lit("evaluation"), B>>,
       <<B, Lit("embedding"), B>>,
       <<B, Lit("model"), WS, Lit("catalog"), B>>,
       <<B, Lit("chat"), WS, Alt(<<"app", "playground">>), B>>,
       <<B, Lit("NER"), B>>,
       <<B, Lit("Named"), WS, Lit("Entity"), WS, Lit("Recognition"), B>>
    >>

\* the literal p occurs in s at i, ignoring case (re.IGNORECASE)
OccursAtCI(s, p, i) ==
    /\ i + Len(p) - 1 <= Len(s)
    /\ \A k \in 1..Len(p) : LowerChar(At(s, i + k - 1)) = LowerChar(At(p, k))

\* \b between positions i - 1 and i of s
Boundary(s, i) ==
    (i > 1 /\ IsWordChar(At(s, i - 1))) # (i <= Len(s) /\ IsWordChar(At(s, i)))

\* the position after the match of pat[k..] at position i of s that the
\* backtracking matcher finds first, 0 when there is none
RECURSIVE MatchEnd(_, _, _, _)
MatchEnd(pat, k, s, i) ==
    IF k > Len(pat) THEN i
    ELSE LET el == pat[k]
         IN CASE el.t = "lit" ->
                   IF OccursAtCI(s, el.s, i) THEN MatchEnd(pat, k + 1, s, i + Len(el.s)) ELSE 0
              [] el.t = "b" ->
                   IF Boundary(s, i) THEN MatchEnd(pat, k + 1, s, i) ELSE 0
              [] el.t = "ws" ->
                   LET good == {j \in (i + 1)..WsRunEnd(s, i) : MatchEnd(pat, k + 1, s, j) # 0}
                   IN IF good = {} THEN 0 ELSE MatchEnd(pat, k + 1, s, Max(good))
              [] el.t = "alt" ->
                   LET good == {a \in 1..Len(el.alts) :
                                   /\ OccursAtCI(s, el.alts[a], i)
                                   /\ MatchEnd(pat, k + 1, s, i + Len(el.alts[a])) # 0}
                   IN IF good = {} THEN 0
                      ELSE MatchEnd(pat, k + 1, s, i + Len(el.alts[Min(good)]))

\* re.findall(pattern, content, re.IGNORECASE), scanning from position i
RECURSIVE FindAllFrom(_, _, _)
FindAllFrom(pat, s, i) ==
    LET starts == {j \in i..Len(s) : MatchEnd(pat, 1, s, j) # 0}
    IN IF starts = {} THEN <<>>
       ELSE LET j == Min(starts)
                e == MatchEnd(pat, 1, s, j)
            IN <<SubSeq(s, j, e - 1)>> \o FindAllFrom(pat, s, e)

FindAll(pat, s) == FindAllFrom(pat, s, 1)

\* line 92: the label a pattern adds to the set
Label(matches) == Strip(matches[1])

\* SortKey, were the labels sorted as they are
SortKey_CaseSensitive(label) == label

\* line 95: the order the labels are joined in
SortKey(label) == Lower(label)

\* sorted(S, key=...): labels of equal key keep the order the set yields them in
RECURSIVE Sorted(_)
Sorted(S) ==
    IF S = {} THEN <<>>
    ELSE LET m == CHOOSE x \in S : \A y \in S : ~StrLess(SortKey(y), SortKey(x))
         IN <<m>> \o Sorted(S \ {m})

\* lines 61-95
extract_technologies(content) ==
    LET technologies ==
            {Label(FindAll(tech_patterns[p], content)) :
                p \in {q \in 1..Len(tech_patterns) : FindAll(tech_patterns[q], content) # <<>>}}
    IN IF technologies # {} THEN Join(Sorted(technologies), ", ") ELSE SENTINEL

-----------------------------------------------------------------------------
(* The documents extract_technologies is called on *)

\* the longest document, in phrases
MaxPhrases == 3

Phrases ==
    {"Azure OpenAI", "azure\nopenai", "GPT-4o", "gpt-4", "rag", "Embedding",
     "Azure AI Foundry", "RAGs", "ASP.NET", "content filters"}

\* a document is its phrases, which single spaces separate
TechArgs == SeqsUpTo(Phrases, MaxPhrases)

InitTech ==
    /\ pc = "call"
    /\ arg \in TechArgs
    /\ ret = None
    /\ Idle

\* line 170
ExtractTechnologies ==
    /\ pc = "call"
    /\ ret' = extract_technologies(Join(arg, " "))
    /\ pc' = "return"
    /\ UNCHANGED <<arg, ProgramVars>>

NextTech == ExtractTechnologies

SpecTech == InitTech /\ [][NextTech]_vars

-----------------------------------------------------------------------------
(* get_git_info *)

\* str.split(): the words that runs of whitespace separate
RECURSIVE SplitWs(_)
SplitWs(s) ==
    LET a == WsRunEnd(s, 1)
    IN IF a > Len(s) THEN <<>>
       ELSE LET e == CHOOSE j \in a..(Len(s) + 1) :
                         /\ j = Len(s) + 1 \/ IsSpace(At(s, j))
                         /\ \A k \in a..(j - 1) : ~IsSpace(At(s, k))
            IN <<SubSeq(s, a, e - 1)>> \o SplitWs(SubSeq(s, e, Len(s)))

DigitVal(c) == Ord(c) - Ord("0")

IsLeap(y) == (y % 4 = 0 /\ y % 100 # 0) \/ y % 400 = 0

DaysIn(y, m) ==
    IF m = 2 THEN (IF IsLeap(y) THEN 29 ELSE 28)
    ELSE IF m \in {4, 6, 9, 11} THEN 30 ELSE 31

\* the length of the month field %m takes at i, 0 for none: the alternatives
\* 1[0-2], 0[1-9], [1-9] in this order, the first after which "-" follows
MonthLen(s, i) ==
    LET Two(a, bs) == /\ i + 1 <= Len(s)
                      /\ At(s, i) = a
                      /\ At(s, i + 1) \in bs
        One == /\ i <= Len(s)
               /\ IsDigit(At(s, i))
               /\ At(s, i) # "0"
        Dash(j) == j <= Len(s) /\ At(s, j) = "-"
    IN IF Two("1", {"0", "1", "2"}) /\ Dash(i + 2) THEN 2
       ELSE IF Two("0", {"1", "2", "3", "4", "5", "6", "7", "8", "9"}) /\ Dash(i + 2) THEN 2
       ELSE IF One /\ Dash(i + 1) THEN 1
       ELSE 0

\* the length of the day field %d takes at i, 0 for none: the alternatives
\* 3[01], [12]\d, 0[1-9], [1-9], " [1-9]" in this order
DayLen(s, i) ==
    LET Second(bs) == i + 1 <= Len(s) /\ At(s, i + 1) \in bs
        NonZero == {"1", "2", "3", "4", "5", "6", "7", "8", "9"}
        c == IF i <= Len(s) THEN At(s, i) ELSE ""
    IN IF c = "3" /\ Second({"0", "1"}) THEN 2
       ELSE IF c \in {"1", "2"} /\ Second(NonZero \cup {"0"}) THEN 2
       ELSE IF c = "0" /\ Second(NonZero) THEN 2
       ELSE IF c \in NonZero THEN 1
       ELSE IF c = " " /\ Second(NonZero) THEN 2
       ELSE 0

\* a field of one or two digits, or of a space and a digit, as a number
Number(s) ==
    IF Len(s) = 1 THEN DigitVal(s)
    ELSE IF At(s, 1) = " " THEN DigitVal(At(s, 2))
    ELSE 10 * DigitVal(At(s, 1)) + DigitVal(At(s, 2))

NoDate == [ok |-> FALSE, y |-> "", m |-> 0, d |-> 0]

\* the date of year y, month m and day d, if there is one
Date(s, y, m, d) ==
    IF y >= 1 /\ d <= DaysIn(y, m)
    THEN [ok |-> TRUE, y |-> SubSeq(s, 1, 4), m |-> m, d |-> d]
    ELSE NoDate

\* s read as a year of four digits, a month of ml and a day of dl characters
DateFields(s, ml, dl) ==
    IF /\ Len(s) >= 5
       /\ \A k \in 1..4 : IsDigit(At(s, k))
       /\ At(s, 5) = "-"
       /\ ml > 0
       /\ dl > 0
       /\ Len(s) = 6 + ml + dl
    THEN Date(s,
              1000 * DigitVal(At(s, 1)) + 100 * DigitVal(At(s, 2))
                  + 10 * DigitVal(At(s, 3)) + DigitVal(At(s, 4)),
              Number(SubSeq(s, 6, 5 + ml)),
              Number(SubSeq(s, 7 + ml, 6 + ml + dl)))
    ELSE NoDate

MonthAndDay(s, ml) == DateFields(s, ml, DayLen(s, 7 + ml))

\* datetime.strptime(s, '%Y-%m-%d'): the whole of s is four digits, "-", a
\* month, "-", a day, and the three make a date; ok is FALSE for ValueError
strptime(s) == MonthAndDay(s, MonthLen(s, 6))

Digits == "0123456789"

TwoDigits(n) == At(Digits, (n \div 10) + 1) \o At(Digits, (n % 10) + 1)

\* date_obj.strftime('%Y-%m-%d')
strftime(date) == date.y \o "-" \o TwoDigits(date.m) \o "-" \o TwoDigits(date.d)

\* FIRST_QUERY, were the restriction to merge commits left out
FIRST_QUERY_Unrestricted == "all"

\* line 106: the first query is restricted to merge commits
FIRST_QUERY == "merges"

\* line 126: the second query takes any commit
SECOND_QUERY == "all"

\* lines 116-122 and 136-142: what a completed query leads to: the pair to
\* return, the next statement, or the exception raised on the way
ReadResult(result) ==
    LET \* lines 121-122 and 141-142
        Dated(date_obj, author) ==
            IF date_obj.ok
            THEN [kind |-> "return", value |-> <<strftime(date_obj), author>>]
            ELSE [kind |-> "raise", value |-> <<>>]
        \* date_str.split()[0]
        FirstWord(words, author) ==
            IF words = <<>> THEN [kind |-> "raise", value |-> <<>>]
            ELSE Dated(strptime(words[1]), author)
        \* lines 118-119 and 138-139
        Parts(parts) ==
            IF Len(parts) = 2 THEN FirstWord(SplitWs(parts[1]), parts[2])
            ELSE [kind |-> "next", value |-> <<>>]
        \* lines 116-117 and 136-137
        Stripped(stdout) ==
            IF result.returncode = 0 /\ stdout # "" THEN Parts(Split(stdout, "|"))
            ELSE [kind |-> "next", value |-> <<>>]
    IN Stripped(Strip(result.stdout))

\* lines 108-122 and 128-142: subprocess.run and the reading of its result
Attempt(response) ==
    IF response.raises THEN [kind |-> "raise", value |-> <<>>]
    ELSE ReadResult(response)

\* OnException, were the exception left to the caller
OnException_Propagate(queries) ==
    [value |-> <<>>, raised |-> TRUE, warned |-> FALSE, queries |-> queries]

\* lines 144-147: the exception is caught, a warning printed, the sentinel
\* pair returned
OnException(queries) ==
    [value |-> <<SENTINEL, SENTINEL>>, raised |-> FALSE, warned |-> TRUE, queries |-> queries]

\* lines 98-147, history being what the repository answers to each query:
\* the pair returned, whether an exception left the call, and the queries run
get_git_info(history) ==
    LET \* lines 124-147
        Second(second) ==
            IF second.kind = "return"
            THEN [value |-> second.value, raised |-> FALSE, warned |-> FALSE,
                  queries |-> <<FIRST_QUERY, SECOND_QUERY>>]
            ELSE IF second.kind = "raise" THEN OnException(<<FIRST_QUERY, SECOND_QUERY>>)
            ELSE [value |-> <<SENTINEL, SENTINEL>>, raised |-> FALSE, warned |-> FALSE,
                  queries |-> <<FIRST_QUERY, SECOND_QUERY>>]
        \* lines 104-122
        First(first) ==
            IF first.kind = "return"
            THEN [value |-> first.value, raised |-> FALSE, warned |-> FALSE,
                  queries |-> <<FIRST_QUERY>>]
            ELSE IF first.kind = "raise" THEN OnException(<<FIRST_QUERY>>)
            ELSE Second(Attempt(history[SECOND_QUERY]))
    IN First(Attempt(history[FIRST_QUERY]))

-----------------------------------------------------------------------------
(* The histories get_git_info is called on *)

\* what subprocess.run can do: raise, or complete with an exit code and an
\* output; mode names the case, date and author what a good output holds
Response(raises, returncode, stdout, mode, date, author) ==
    [raises |-> raises, returncode |-> returncode, stdout |-> stdout,
     mode |-> mode, date |-> date, author |-> author]

GitResponses ==
    {Response(TRUE, 0, "", "tool absent", "", ""),
     Response(FALSE, 128, "", "non-zero exit", "", ""),
     Response(FALSE, 1, "2024-03-07 10:00:00 +0100|Ann\n", "non-zero exit", "", ""),
     Response(FALSE, 0, "", "empty output", "", ""),
     Response(FALSE, 0, "\n", "empty output", "", ""),
     Response(FALSE, 0, "no history\n", "malformed output", "", ""),
     Response(FALSE, 0, "2024-03-07 10:00:00 +0100|A|B\n", "malformed output", "", ""),
     Response(FALSE, 0, "2024-02-30 10:00:00 +0100|Ann\n", "unparsable date", "", ""),
     Response(FALSE, 0, " |Ann\n", "unparsable date", "", ""),
     Response(FALSE, 0, "2024-03-07 10:00:00 +0100|Ann\n", "ok", "2024-03-07", "Ann"),
     Response(FALSE, 0, "2023-1-9|Bo Li\n", "ok", "2023-01-09", "Bo Li"),
     Response(FALSE, 0, "2024-02-29 23:59:59 +0000|N/A\n", "ok", "2024-02-29", "N/A")}

GitArgs == [{"merges", "all"} -> GitResponses]

InitGit ==
    /\ pc = "call"
    /\ arg \in GitArgs
    /\ ret = None
    /\ Idle

\* line 171
GetGitInfo ==
    /\ pc = "call"
    /\ ret' = get_git_info(arg)
    /\ pc' = "return"
    /\ UNCHANGED <<arg, ProgramVars>>

NextGit == GetGitInfo

SpecGit == InitGit /\ [][NextGit]_vars

-----------------------------------------------------------------------------
(* process_lab_files, generate_csv, main *)

\* the most files in the scanned tree
MaxFiles == 3

\* paths below the Instructions directory, as their components
PathUniverse == {<<"a", "x.md">>, <<"a-b", "x.md">>, <<"B.md">>, <<"b.md">>}

PipelineDocs == {"---\ntitle: 'Lab'\n---\nUse RAG\n", "notes"}

\* a file cannot be read, or holds a document
FileStates ==
    {[readable |-> FALSE, content |-> ""]}
    \cup {[readable |-> TRUE, content |-> c] : c \in PipelineDocs}

Trees ==
    UNION {[P -> FileStates] : P \in {Q \in SUBSET PathUniverse : Cardinality(Q) <= MaxFiles}}

PipelineResponses ==
    {r \in GitResponses :
        r.stdout \in {"", "2024-03-07 10:00:00 +0100|Ann\n"} /\ r.returncode = 0}

PipelineHistories == [{"merges", "all"} -> PipelineResponses]

\* the orders rglob can yield the files in
Listings(S) ==
    {l \in [1..Cardinality(S) -> S] : \A i, j \in 1..Cardinality(S) : i # j => l[i] # l[j]}

\* p < q for paths: component by component, a proper prefix first
PathLess(p, q) ==
    LET d == CHOOSE i \in 1..(Len(p) + 1) :
                 /\ i > Len(p) \/ i > Len(q) \/ p[i] # q[i]
                 /\ \A k \in 1..(i - 1) : k <= Len(q) /\ p[k] = q[k]
    IN IF d > Len(p) THEN Len(q) > Len(p)
       ELSE IF d > Len(q) THEN FALSE
       ELSE StrLess(p[d], q[d])

\* sorted, were the files taken in the order rglob yields them
sorted_Unsorted(listing) == listing

\* line 156: sorted(...)
RECURSIVE sorted(_)
sorted(listing) ==
    IF listing = <<>> THEN <<>>
    ELSE LET m == CHOOSE i \in 1..Len(listing) :
                      /\ \A j \in 1..Len(listing) : ~PathLess(listing[j], listing[i])
                      /\ \A j \in 1..(i - 1) : PathLess(listing[i], listing[j])
         IN <<listing[m]>>
            \o sorted([k \in 1..(Len(listing) - 1) |-> IF k < m THEN listing[k] ELSE listing[k + 1]])

\* line 174 and 180: the path relative to the Instructions directory, as text
rel_filename(md_file) == Join(md_file, "/")

\* lines 163-188: one turn of the loop: the record appended, or none when an
\* exception reached line 187
process_file(md_file, file, history) ==
    LET \* lines 169-185, an exception of get_git_info leaving the try block
        Assemble(parsed, technologies, git) ==
            IF git.raised THEN [appended |-> FALSE, lab |-> <<>>]
            ELSE [appended |-> TRUE,
                  lab |-> [filename |-> rel_filename(md_file),
                           description |-> full_description(parsed[1], parsed[2]),
                           technologies |-> technologies,
                           last_merge_date |-> git.value[1],
                           last_merge_author |-> git.value[2]]]
    IN IF ~file.readable THEN [appended |-> FALSE, lab |-> <<>>]
       ELSE Assemble(parse_frontmatter(file.content),
                     extract_technologies(file.content),
                     get_git_info(history))

\* fieldnames, were the last two columns exchanged
fieldnames_AuthorFirst ==
    <<"filename", "description", "technologies", "last_merge_author", "last_merge_date">>

\* line 195
fieldnames == <<"filename", "description", "technologies", "last_merge_date", "last_merge_author">>

\* the row DictWriter writes for a record
Row(lab) == [k \in 1..Len(fieldnames) |-> lab[fieldnames[k]]]

\* what an output file of an earlier run holds
StaleRows == << <<"stale">> >>

\* the output file before the run
InitialFile(prev) ==
    IF prev THEN [origin |-> "previous", rows |-> StaleRows]
    ELSE [origin |-> "absent", rows |-> <<>>]

Init ==
    /\ pc = "start"
    /\ arg = None
    /\ ret = None
    /\ fs \in Trees
    /\ out_prev \in BOOLEAN
    /\ md_files = <<>>
    /\ idx = 0
    /\ labs = <<>>
    /\ errors = <<>>
    /\ outfile = InitialFile(out_prev)
    /\ written = 0

\* lines 155-158: the files are enumerated and sorted
Enumerate ==
    /\ pc = "start"
    /\ \E listing \in Listings(DOMAIN fs) : md_files' = sorted(listing)
    /\ idx' = 1
    /\ pc' = "loop"
    /\ UNCHANGED <<arg, ret, fs, out_prev, labs, errors, outfile, written>>

\* lines 160-188: one file is processed
ProcessFile ==
    /\ pc = "loop"
    /\ idx <= Len(md_files)
    /\ \E history \in PipelineHistories :
          \E step \in {process_file(md_files[idx], fs[md_files[idx]], history)} :
             /\ labs' = IF step.appended THEN Append(labs, step.lab) ELSE labs
             /\ errors' = IF step.appended THEN errors ELSE Append(errors, md_files[idx])
    /\ idx' = idx + 1
    /\ UNCHANGED <<pc, arg, ret, fs, out_prev, md_files, outfile, written>>

\* OpenOutput, were the file opened for appending
OpenOutput_Append ==
    /\ pc = "loop"
    /\ idx > Len(md_files)
    /\ \/ /\ outfile' = [origin |-> "run", rows |-> outfile.rows]
          /\ pc' = "header"
       \/ /\ outfile' = outfile
          /\ pc' = "failed"
    /\ UNCHANGED <<arg, ret, fs, out_prev, md_files, idx, labs, errors, written>>

\* lines 190, 221 and 197: the loop is over and the output file is opened for
\* writing, which empties it, or the open fails
OpenOutput ==
    /\ pc = "loop"
    /\ idx > Len(md_files)
    /\ \/ /\ outfile' = [origin |-> "run", rows |-> <<>>]
          /\ pc' = "header"
       \/ /\ outfile' = outfile
          /\ pc' = "failed"
    /\ UNCHANGED <<arg, ret, fs, out_prev, md_files, idx, labs, errors, written>>

\* line 199: the header is written, or the write fails
WriteHeader ==
    /\ pc = "header"
    /\ \/ /\ outfile' = [outfile EXCEPT !.rows = Append(@, fieldnames)]
          /\ pc' = "rows"
       \/ /\ outfile' = outfile
          /\ pc' = "failed"
    /\ UNCHANGED <<arg, ret, fs, out_prev, md_files, idx, labs, errors, written>>

\* line 200: the next record is written, or the write fails
WriteRow ==
    /\ pc = "rows"
    /\ written < Len(labs)
    /\ \/ /\ outfile' = [outfile EXCEPT !.rows = Append(@, Row(labs[written + 1]))]
          /\ written' = written + 1
          /\ pc' = "rows"
       \/ /\ outfile' = outfile
          /\ written' = written
          /\ pc' = "failed"
    /\ UNCHANGED <<arg, ret, fs, out_prev, md_files, idx, labs, errors>>

\* lines 197-203: the file is closed and the counts are printed
CloseOutput ==
    /\ pc = "rows"
    /\ written = Len(labs)
    /\ pc' = "done"
    /\ UNCHANGED <<arg, ret, fs, out_prev, md_files, idx, labs, errors, outfile, written>>

\* the process is killed before it ends
Crash ==
    /\ pc \in {"start", "loop", "header", "rows"}
    /\ pc' = "crashed"
    /\ UNCHANGED <<arg, ret, fs, out_prev, md_files, idx, labs, errors, outfile, written>>

Next ==
    \/ Enumerate
    \/ ProcessFile
    \/ OpenOutput
    \/ WriteHeader
    \/ WriteRow
    \/ CloseOutput
    \/ Crash

Spec == Init /\ [][Next]_vars

-----------------------------------------------------------------------------
(* Properties of process_lab_files, generate_csv and main, under Spec *)

\* the position of a path in the order of the paths: Python's sorted() puts
\* "B.md" before "a", and "a" before "a-b"
PathOrder == << <<"B.md">>, <<"a", "x.md">>, <<"a-b", "x.md">>, <<"b.md">> >>

Rank(path) == CHOOSE k \in 1..Len(PathOrder) : PathOrder[k] = path

\* the file a record or a row is about
FileNamed(filename) == CHOOSE f \in DOMAIN fs : Join(f, "/") = filename

\* the records of file f
RecordsOf(f) == {k \in 1..Len(labs) : labs[k].filename = Join(f, "/")}

Skipped(f) == \E e \in 1..Len(errors) : errors[e] = f

LoopOver == pc \in {"header", "rows", "done", "failed"}

\* C1: every enumerated file that is read yields exactly one record, every
\* file whose read fails yields none and is reported; records plus skipped
\* files are the files enumerated; a failed lookup of the history or a
\* document without metadata keeps its row, and the run goes on to the end
\* of the loop whatever fails for a file.
C1_OneRecordPerReadableFile ==
    /\ idx > 0 =>
          /\ {md_files[k] : k \in 1..Len(md_files)} = DOMAIN fs
          /\ Len(md_files) = Cardinality(DOMAIN fs)
          /\ Len(labs) + Len(errors) = idx - 1
    /\ \A k \in 1..Len(md_files) :
          IF k < idx
          THEN /\ Cardinality(RecordsOf(md_files[k])) = IF fs[md_files[k]].readable THEN 1 ELSE 0
               /\ Skipped(md_files[k]) <=> ~fs[md_files[k]].readable
          ELSE RecordsOf(md_files[k]) = {} /\ ~Skipped(md_files[k])
    /\ LoopOver => Len(labs) + Len(errors) = Len(md_files)
    /\ pc = "failed" => idx > Len(md_files)

\* a run that ended with a skipped file, a record without history and a
\* record without metadata
C1_Witness ==
    /\ pc = "done"
    /\ errors # <<>>
    /\ \E k \in 1..Len(labs) : labs[k].last_merge_date = "N/A"
    /\ \E k \in 1..Len(labs) : labs[k].description = "N/A"
    /\ Len(labs) + Len(errors) = Cardinality(DOMAIN fs)

\* C8: the records, and the rows of the output file, are in the order of
\* their paths, whichever files were skipped.
C8_RowsInPathOrder ==
    /\ \A j, k \in 1..Len(labs) :
          j < k => Rank(FileNamed(labs[j].filename)) < Rank(FileNamed(labs[k].filename))
    /\ outfile.origin = "run" =>
          \A j, k \in 2..Len(outfile.rows) :
             j < k => Rank(FileNamed(outfile.rows[j][1])) < Rank(FileNamed(outfile.rows[k][1]))

\* a finished run of three files, the second of which was skipped
C8_Witness ==
    /\ pc = "done"
    /\ Len(md_files) = 3
    /\ Len(outfile.rows) = 3
    /\ errors = <<md_files[2]>>

\* the output of a run that ends well: the header and a row for each record
Complete == <<fieldnames>> \o [k \in 1..Len(labs) |-> Row(labs[k])]

IsPrefix(a, b) == Len(a) <= Len(b) /\ SubSeq(b, 1, Len(a)) = a

\* C9 as claimed: however the run ends, the output file is as it was before
\* the run, or holds the header and every record.
C9_UntouchedOrComplete ==
    pc \in {"done", "failed", "crashed"} =>
        \/ outfile = InitialFile(out_prev)
        \/ outfile.origin = "run" /\ outfile.rows = Complete

\* C9, amended: the output file is touched only after every record has been
\* assembled; until then it is as it was before the run, and so it stays when
\* the open fails; once opened it holds the first rows of the complete output,
\* all of them when the run ends well, and what was written when a write fails.
C9_WrittenAfterAssembly ==
    /\ outfile.origin # "run" => outfile = InitialFile(out_prev)
    /\ outfile.origin = "run" =>
          /\ LoopOver \/ pc = "crashed"
          /\ idx > Len(md_files)
          /\ Len(labs) + Len(errors) = Len(md_files)
          /\ IsPrefix(outfile.rows, Complete)
    /\ pc \in {"start", "loop"} => outfile = InitialFile(out_prev)
    /\ pc = "done" => outfile.origin = "run" /\ outfile.rows = Complete

\* a run over an earlier output file that failed after the header and one of
\* two records were written
C9_Witness ==
    /\ pc = "failed"
    /\ out_prev
    /\ outfile.origin = "run"
    /\ Len(labs) = 2
    /\ Len(outfile.rows) = 2

\* C10 as claimed: the output file starts with the header filename,
\* description, technologies, last_change_date, last_change_author.
C10_HeaderLastChange ==
    pc = "done" =>
        outfile.rows[1] = <<"filename", "description", "technologies",
                            "last_change_date", "last_change_author">>

\* C10, amended: when the run ends well the output file starts with the header
\* filename, description, technologies, last_merge_date, last_merge_author,
\* followed by one row for each record, its fields in that order.
C10_HeaderAndRows ==
    pc = "done" =>
        /\ outfile.rows[1] = <<"filename", "description", "technologies",
                               "last_merge_date", "last_merge_author">>
        /\ Len(outfile.rows) = Len(labs) + 1
        /\ \A k \in 1..Len(labs) :
              outfile.rows[k + 1] = <<labs[k].filename, labs[k].description,
                                      labs[k].technologies, labs[k].last_merge_date,
                                      labs[k].last_merge_author>>

\* a finished run whose file holds a row with a date and an author
C10_Witness ==
    /\ pc = "done"
    /\ \E k \in 2..Len(outfile.rows) :
          outfile.rows[k][4] = "2024-03-07" /\ outfile.rows[k][5] = "Ann"

-----------------------------------------------------------------------------
(* Properties of get_git_info, under SpecGit *)

\* the answers to the queries the call issued, in the order it issued them
Issued == [k \in 1..Len(ret.queries) |-> arg[ret.queries[k]]]

LastIssued == Issued[Len(ret.queries)]

SentinelPair == <<"N/A", "N/A">>

FailureModes ==
    {"tool absent", "non-zero exit", "empty output", "malformed output", "unparsable date"}

\* C2 as claimed: no exception leaves the call; when no query it issued gave
\* a date and an author, the pair returned is ("N/A", "N/A"); and never is
\* only one of the two fields the sentinel.
C2_SentinelPairOrNeither ==
    pc = "return" =>
        /\ ~ret.raised
        /\ Len(ret.value) = 2
        /\ (\A k \in 1..Len(Issued) : Issued[k].mode \in FailureModes) =>
              ret.value = SentinelPair
        /\ ret.value[1] = "N/A" <=> ret.value[2] = "N/A"

\* C2, amended: no exception leaves the call; when the last query it issued
\* failed, in whichever mode, the pair returned is ("N/A", "N/A"), and
\* otherwise it is that query's date as YYYY-MM-DD and its author as git
\* printed it; the date is the sentinel only along with the author, and the
\* author alone is the sentinel only when the commit's author is the text N/A.
C2_NeverRaises ==
    pc = "return" =>
        /\ ~ret.raised
        /\ Len(ret.value) = 2
        /\ LastIssued.mode \in FailureModes => ret.value = SentinelPair
        /\ LastIssued.mode = "ok" => ret.value = <<LastIssued.date, LastIssued.author>>
        /\ ret.value[1] = "N/A" => ret.value[2] = "N/A"
        /\ ret.value[2] = "N/A" /\ ret.value[1] # "N/A" =>
              LastIssued.mode = "ok" /\ LastIssued.author = "N/A"

\* a call whose first query gave no date|author pair and whose second query
\* gave a date that does not parse: the exception was caught
C2_Witness ==
    /\ pc = "return"
    /\ arg["merges"].mode = "malformed output"
    /\ arg["all"].mode = "unparsable date"
    /\ ret.warned
    /\ ret.value = SentinelPair

\* the queries come in this order, and there are no more
InOrder ==
    /\ Len(ret.queries) \in {1, 2}
    /\ ret.queries[1] = "merges"
    /\ Len(ret.queries) = 2 => ret.queries[2] = "all"

\* C3 as claimed: when the query restricted to merge commits gives no result
\* because there is no merge commit, the tool is absent, the exit code is not
\* zero, or the output is empty or malformed, the unrestricted query follows;
\* the restricted query comes first and there are at most two queries.
C3_RepeatsOnEveryFailure ==
    pc = "return" =>
        /\ InOrder
        /\ arg["merges"].mode \in {"tool absent", "non-zero exit", "empty output",
                                   "malformed output"} =>
              Len(ret.queries) = 2

\* C3, amended: the unrestricted query follows exactly when the restricted
\* query completes with an exit code other than zero, with an empty output or
\* with an output that is not two fields around one "|"; when the restricted
\* query cannot be run (the tool is absent) or gives a date that does not
\* parse, the call returns ("N/A", "N/A") without a second query; the
\* restricted query comes first and there are at most two queries.
C3_RepeatsUnrestricted ==
    pc = "return" =>
        /\ InOrder
        /\ Len(ret.queries) = 2 <=>
              arg["merges"].mode \in {"non-zero exit", "empty output", "malformed output"}
        /\ arg["merges"].mode \in {"tool absent", "unparsable date"} =>
              ret.queries = <<"merges">> /\ ret.value = SentinelPair

\* a file without a merge commit whose date and author come from the
\* unrestricted query
C3_Witness ==
    /\ pc = "return"
    /\ arg["merges"].mode = "empty output"
    /\ arg["merges"].returncode = 0
    /\ arg["all"].mode = "ok"
    /\ ret.queries = <<"merges", "all">>
    /\ ret.value = <<"2023-01-09", "Bo Li">>

-----------------------------------------------------------------------------
(* Properties of parse_frontmatter, under SpecParse *)

\* the document opens with a line "---" and a later line "---" closes it
HasBlock(doc) ==
    /\ doc.lines # <<>>
    /\ doc.lines[1] = "---"
    /\ \E k \in 2..Len(doc.lines) : doc.lines[k] = "---"

CloseLine(doc) == Min({k \in 2..Len(doc.lines) : doc.lines[k] = "---"})

\* the lines of the block that start with key
KeyLines(doc, key) ==
    {k \in 2..(CloseLine(doc) - 1) : StartsWith(doc.lines[k], key)}

\* the text between the quotes of the line  key 'value'
QuotedValue(line, key) == SubSeq(line, Len(key) + 3, Len(line) - 1)

\* C4: a document that begins with a metadata block gets "" for each of title
\* and description that the block does not hold, also when the block is empty
\* and the document has a top-level heading; with both absent the description
\* of the record is "N/A".
C4_BlockStopsFallback ==
    pc = "return" /\ HasBlock(arg) =>
        /\ KeyLines(arg, "title:") = {} => ret.title = ""
        /\ KeyLines(arg, "description:") = {} => ret.description = ""
        /\ KeyLines(arg, "title:") = {} /\ KeyLines(arg, "description:") = {} =>
              ret.full_description = "N/A"

\* the block ends with a line break and holds one title and one description
WellFormed(doc) ==
    /\ HasBlock(doc)
    /\ CloseLine(doc) < Len(doc.lines) \/ doc.nl
    /\ Cardinality(KeyLines(doc, "title:")) = 1
    /\ Cardinality(KeyLines(doc, "description:")) = 1

\* C5: from a well-formed block with a quoted title and a quoted description,
\* the title and the description returned are the texts between the quotes
\* of the title line and of the description line, also when a value holds the
\* other quote character or another key ends in "title".
C5_QuotedValuesExact ==
    pc = "return" /\ WellFormed(arg) =>
        /\ \A k \in KeyLines(arg, "title:") :
              ret.title = QuotedValue(arg.lines[k], "title:")
        /\ \A k \in KeyLines(arg, "description:") :
              ret.description = QuotedValue(arg.lines[k], "description:")

\* the document has no metadata block and has a top-level heading
FallbackPath(doc) ==
    /\ doc.lines # <<>>
    /\ doc.lines[1] # "---"
    /\ \E k \in 1..Len(doc.lines) : StartsWith(doc.lines[k], "# ")

FirstHeading(doc) == Min({k \in 1..Len(doc.lines) : StartsWith(doc.lines[k], "# ")})

\* the lines after the first heading that are not empty, headings or images
Eligible(doc) ==
    LET Counts(line) ==
            Strip(line) # "" /\ ~StartsWith(line, "#") /\ ~StartsWith(line, "!")
        after == SubSeq(doc.lines, FirstHeading(doc) + 1, Len(doc.lines))
        kept == SelectSeq(after, Counts)
    IN [k \in 1..Len(kept) |-> Strip(kept[k])]

Accumulated(doc, m) == Join(SubSeq(Eligible(doc), 1, m), " ")

\* C6 as claimed: the description is the eligible lines up to the first at
\* which the accumulated text has at least 100 characters, cut to 200.
C6_StopsAtHundred ==
    pc = "return" /\ FallbackPath(arg) =>
        LET enough == {m \in 1..Len(Eligible(arg)) : Len(Accumulated(arg, m)) >= 100}
            stop == IF enough = {} THEN Len(Eligible(arg)) ELSE Min(enough)
            text == Accumulated(arg, stop)
        IN ret.description = SubSeq(text, 1, Min({200, Len(text)}))

\* C6, amended: in the heading fallback the description is the stripped
\* non-empty, non-heading, non-image lines after the first top-level heading,
\* joined by spaces, up to the first line at which the accumulated text has
\* more than 100 characters (a length of exactly 100 does not stop it), cut
\* to at most 200 characters; lines before the heading do not contribute.
C6_StopsPastHundred ==
    pc = "return" /\ FallbackPath(arg) =>
        LET enough == {m \in 1..Len(Eligible(arg)) : Len(Accumulated(arg, m)) > 100}
            stop == IF enough = {} THEN Len(Eligible(arg)) ELSE Min(enough)
            text == Accumulated(arg, stop)
        IN /\ ret.description = SubSeq(text, 1, Min({200, Len(text)}))
           /\ Len(ret.description) <= 200

\* two lines accumulate to exactly 100 characters, a third line is taken and
\* the text is cut to 200
C6_Witness ==
    /\ pc = "return"
    /\ FallbackPath(arg)
    /\ Len(Eligible(arg)) = 3
    /\ Len(Accumulated(arg, 2)) = 100
    /\ Len(Accumulated(arg, 3)) > 200
    /\ Len(ret.description) = 200

-----------------------------------------------------------------------------
(* Properties of extract_technologies, under SpecTech *)

\* what each phrase holds: the patterns that match in it, by their place in
\* the catalog, and the text each matches
PhraseMatches(phrase) ==
    CASE phrase = "Azure OpenAI" -> {<<1, "Azure OpenAI">>}
      [] phrase = "azure\nopenai" -> {<<1, "azure\nopenai">>}
      [] phrase = "GPT-4o" -> {<<2, "GPT-4o">>}
      [] phrase = "gpt-4" -> {<<2, "gpt-4">>}
      [] phrase = "rag" -> {<<5, "rag">>}
      [] phrase = "Embedding" -> {<<15, "Embedding">>}
      [] phrase = "Azure AI Foundry" -> {<<3, "Foundry">>, <<7, "Azure AI Foundry">>}
      [] phrase = "RAGs" -> {}
      [] phrase = "ASP.NET" -> {<<11, ".NET">>}
      [] phrase = "content filters" -> {<<13, "content filters">>}

\* the patterns that match in the document
Matching(doc) == {m[1] : m \in UNION {PhraseMatches(doc[k]) : k \in 1..Len(doc)}}

\* the first text of the document that pattern p matches
FirstMatch(doc, p) ==
    LET first == Min({k \in 1..Len(doc) : \E m \in PhraseMatches(doc[k]) : m[1] = p})
    IN (CHOOSE m \in PhraseMatches(doc[first]) : m[1] = p)[2]

\* the texts that ", " separates
RECURSIVE ListItems(_)
ListItems(text) ==
    LET seps == {j \in 1..Len(text) : OccursAt(text, ", ", j)}
        e == IF seps = {} THEN Len(text) + 1 ELSE Min(seps)
    IN IF e > Len(text) THEN <<text>>
       ELSE <<SubSeq(text, 1, e - 1)>> \o ListItems(SubSeq(text, e + 2, Len(text)))

\* the labels of the returned list
Listed == IF ret = "N/A" THEN <<>> ELSE ListItems(ret)

\* C7: extract_technologies returns "N/A" exactly when no pattern of the
\* catalog matches, and otherwise the labels joined by ", ": no label twice,
\* in the order of their lower-case forms, and for each matching pattern the
\* first text it matches, in the casing of the document; a pattern matches
\* whatever the casing of the text.
C7_SortedUniqueFirstMatches ==
    pc = "return" =>
        /\ ret = "N/A" <=> Matching(arg) = {}
        /\ \A j, k \in 1..Len(Listed) : j < k => Listed[j] # Listed[k]
        /\ \A j, k \in 1..Len(Listed) :
              j < k => ~StrLess(Lower(Listed[k]), Lower(Listed[j]))
        /\ {Listed[k] : k \in 1..Len(Listed)} = {FirstMatch(arg, p) : p \in Matching(arg)}

\* a document where one pattern matches twice in two casings, and where the
\* order of the labels is not the order of their characters
C7_Witness ==
    /\ pc = "return"
    /\ arg = <<"azure\nopenai", "Azure OpenAI", "Embedding">>
    /\ ret = "azure\nopenai, Embedding"

=============================================================================
